---- MODULE Spec2Model ----
(***************************************************************************)
(* A model of the serverless-statistics core: the invocation cache, the    *)
(* Logs Insights query runner (RunQuery), the statistics engine            *)
(* (CalcSummaryStats) and the metric orchestrators that combine them.      *)
(*                                                                         *)
(* The specifications share the definitions:                               *)
(*   Spec              orchestrator calls, one after the other, on a cache *)
(*   RunQuerySpec      RunQuery called on its own                          *)
(*   RunQueryFairSpec  the same, the calling goroutine always scheduled    *)
(*   CacheSpec         Has/Get/Set called directly on one Cache            *)
(*   StatsSpec         CalcSummaryStats applied to bounded samples         *)
(*   SumSpec           the denominator step on any response of the backend *)
(*   RowsSpec          log-query orchestrators on any rows of the backend  *)
(*   TimeoutSpec       GetTimeoutRate on any rows for its two queries      *)
(*   EscapeSpec        log-query orchestrators called with every qualifier *)
(*   LockSpec          goroutines calling Has/Get/Set on one Cache         *)
(*   SharedSpec        orchestrator calls running concurrently on a cache  *)
(* Time is counted in milliseconds.  Metric values (float64 in the code)   *)
(* are counted in halves, so that 1 stands for 0.5 and int() truncates.    *)
(***************************************************************************)
EXTENDS Integers, Sequences, FiniteSets, TLC

VARIABLES
    store,      \* Cache.store: key string -> invocation count
    pc,         \* position of the running call
    metric,     \* the orchestrator that is running
    query,      \* its FunctionQuery
    invSum,     \* invocationsSum of the running call (in halves)
    phase,      \* GetTimeoutRate: 1 = first log query, 2 = second
    invCount,   \* GetTimeoutRate: invocationsCount parsed from the first query
    cancelled,  \* the caller-supplied context has been cancelled
    armed,      \* RunQuery has derived its own deadline (context.WithTimeout)
    elapsed,    \* ms since the deadline was armed
    polls,      \* GetQueryResults calls of the running RunQuery
    result,     \* what the last call returned
    fetched,    \* SumSpec: the series the metrics backend holds for Invocations
    held,       \* RowsSpec: the rows the log backend holds for the query
    hist,       \* bookkeeping about the running call, read only by properties
    cacheOp,    \* CacheSpec: the last cache operation and its answer
    watch,      \* CacheSpec: the key whose history is followed
    sample,     \* StatsSpec: the sample, as the caller made it
    passed,     \* StatsSpec: the caller's slice, which CalcSummaryStats is handed
    stats,      \* StatsSpec: what CalcSummaryStats returned for it
    mu,         \* Cache.mu: the goroutine holding the write lock, those holding read locks
    threads,    \* LockSpec, SharedSpec: what each goroutine is doing
    sets        \* LockSpec: the Set calls started so far, read only by properties

vars == <<store, pc, metric, query, invSum, phase, invCount, cancelled, armed,
          elapsed, polls, result, fetched, held, hist, cacheOp, watch, sample,
          passed, stats, mu, threads, sets>>

-----------------------------------------------------------------------------
(* Bounds of the model *)

MaxSeries == 2          \* SumSpec: series in one metrics response
MaxPoints == 2          \* SumSpec: data points in one series
MaxRows == 2            \* rows in one query result
MaxLatencySleeps == 1   \* a status poll takes at most this many sleep intervals
MaxRunningPolls == 1    \* Spec: non-terminal answers per query before the backend settles
MaxCacheCount == 1      \* CacheSpec: counts passed to Set are 0..MaxCacheCount
MaxSample == 101        \* StatsSpec: longest patterned sample
MaxSmallSample == 3     \* StatsSpec: longest sample with free values
MaxGoroutines == 2      \* LockSpec, SharedSpec: goroutines that share the cache

(* Program constants *)

SleepMs == 500          \* time.Sleep(500 * time.Millisecond)
TimeoutMs == 10000      \* context.WithTimeout(ctx, 10*time.Second)
P95MinN == 20
P99MinN == 100
ConfMinN == 30

-----------------------------------------------------------------------------
(* Strings are sequences of one-character strings *)

RECURSIVE Flat(_)
Flat(s) == IF s = <<>> THEN "" ELSE Head(s) \o Flat(Tail(s))

RECURSIVE SeqsUpTo(_, _)
SeqsUpTo(S, n) ==
    IF n = 0 THEN {<<>>}
    ELSE LET shorter == SeqsUpTo(S, n - 1)
         IN  shorter \cup {Append(s, x) : s \in {t \in shorter : Len(t) = n - 1}, x \in S}

-----------------------------------------------------------------------------
(* internal/cache *)

\* time.Time.Unix(): whole seconds of an instant given in half seconds
Unix(t) == t \div 2

\* CacheKey.String: fmt.Sprintf("%s|%s|%d|%d", ...)
String(k) ==
    Flat(k.FunctionName) \o "|" \o Flat(k.Qualifier) \o "|"
        \o ToString(Unix(k.Start)) \o "|" \o ToString(Unix(k.End))

\* NewCache
NewCache == << >>

\* Cache.Has
Has(st, k) == String(k) \in DOMAIN st

\* Cache.Get: the zero value and false for a missing key
Get(st, k) ==
    IF String(k) \in DOMAIN st
    THEN [count |-> st[String(k)], found |-> TRUE]
    ELSE [count |-> 0, found |-> FALSE]

\* Cache.Set
Set(st, k, count) ==
    [s \in DOMAIN st \cup {String(k)} |-> IF s = String(k) THEN count ELSE st[s]]

-----------------------------------------------------------------------------
(* Inputs: function queries and cache keys *)

\* "$L" stands for the qualifier "$LATEST"; instants are in half seconds
FunctionNames == {<<"f">>, <<"f", "|", "q">>}
Qualifiers == {<<"q">>, <<"q", "|", "q">>, <<"$", "L">>}
Starts == {0, 1}
Ends == {4}

CacheKeys ==
    [FunctionName : FunctionNames, Qualifier : Qualifiers \ {<<"$", "L">>},
     Start : Starts, End : Ends]

\* sdktypes.FunctionQuery values the orchestrators are called with
Queries ==
    { [FunctionName |-> <<"f">>, Qualifier |-> <<"$", "L">>, StartTime |-> 0, EndTime |-> 4],
      [FunctionName |-> <<"f">>, Qualifier |-> <<"$", "L">>, StartTime |-> 1, EndTime |-> 4],
      [FunctionName |-> <<"f">>, Qualifier |-> <<"q">>, StartTime |-> 0, EndTime |-> 4] }

\* key := cache.CacheKey{FunctionName: ..., Qualifier: ..., Start: ..., End: ...}
KeyOf(q) ==
    [FunctionName |-> q.FunctionName, Qualifier |-> q.Qualifier,
     Start |-> q.StartTime, End |-> q.EndTime]

\* sdktypes.FunctionQuery{}: no call has been made
NoQuery == [FunctionName |-> <<>>, Qualifier |-> <<>>, StartTime |-> 0, EndTime |-> 0]

Idle == [status |-> "none"]
NoOp == [op |-> "none"]
NoHist == [active |-> FALSE]

\* sync.RWMutex{}: unlocked
NoLock == [writer |-> 0, readers |-> {}]

\* no goroutine runs beside the caller
LockIdle == mu = NoLock /\ threads = <<>> /\ sets = {}

-----------------------------------------------------------------------------
(* CacheSpec: Has, Get and Set called on one Cache *)

OrchIdle ==
    /\ pc = "idle" /\ metric = "none" /\ query = NoQuery /\ invSum = 0
    /\ phase = 0 /\ invCount = 0 /\ cancelled = FALSE /\ armed = FALSE
    /\ elapsed = 0 /\ polls = 0 /\ result = Idle /\ hist = NoHist
    /\ fetched = <<>> /\ held = <<>>
    /\ LockIdle

StatsIdle == sample = <<>> /\ passed = <<>> /\ stats = Idle

OrchVars == <<pc, metric, query, invSum, phase, invCount, cancelled, armed,
              elapsed, polls, result, fetched, held, hist, mu, threads, sets>>
StatsVars == <<sample, passed, stats>>
CacheTestVars == <<cacheOp, watch>>

CacheInit ==
    /\ store = NewCache
    /\ cacheOp = NoOp
    /\ watch \in {[key |-> k, set |-> FALSE, last |-> 0] : k \in CacheKeys}
    /\ OrchIdle
    /\ StatsIdle

CacheHas(k) ==
    /\ cacheOp' = [op |-> "Has", key |-> k, count |-> 0, found |-> Has(store, k)]
    /\ UNCHANGED <<store, watch>>

CacheGet(k) ==
    /\ cacheOp' = [op |-> "Get", key |-> k, count |-> Get(store, k).count,
                   found |-> Get(store, k).found]
    /\ UNCHANGED <<store, watch>>

CacheSet(k, v) ==
    /\ store' = Set(store, k, v)
    /\ cacheOp' = [op |-> "Set", key |-> k, count |-> v, found |-> TRUE]
    /\ watch' = IF k = watch.key THEN [watch EXCEPT !.set = TRUE, !.last = v] ELSE watch

CacheNext ==
    /\ \E k \in CacheKeys :
          \/ CacheHas(k)
          \/ CacheGet(k)
          \/ \E v \in 0..MaxCacheCount : CacheSet(k, v)
    /\ UNCHANGED <<OrchVars, StatsVars>>

CacheSpec == CacheInit /\ [][CacheNext]_vars

\* C3: Get(k) answers with the value of the most recent Set(k, _), or with
\* (0, false) when k was never set, whatever was set under other keys; Has(k)
\* agrees with Get(k); a key that is present stays present.
C3_CacheLaw ==
    /\ cacheOp.op = "Get" /\ cacheOp.key = watch.key =>
          /\ cacheOp.found = watch.set
          /\ cacheOp.count = (IF watch.set THEN watch.last ELSE 0)
    /\ \A k \in CacheKeys : Has(store, k) = Get(store, k).found

-----------------------------------------------------------------------------
(* internal/utils: the statistics engine.  Sample values are integers; a mean
   is the fraction num/den, a nil pointer is <<>> and a set one is <<v>>.     *)

\* for _, v := range vals { sum += v }: the values are integers, so the sum
\* does not depend on the order of the additions, and it is taken by halves
RECURSIVE SumSeq(_)
SumSeq(s) ==
    IF Len(s) = 0 THEN 0
    ELSE IF Len(s) = 1 THEN s[1]
    ELSE LET h == Len(s) \div 2
         IN  SumSeq(SubSeq(s, 1, h)) + SumSeq(SubSeq(s, h + 1, Len(s)))

\* for _, v := range vals { sumSquares += v * v }, of the values as they are
SumSquares(s) == SumSeq([i \in 1..Len(s) |-> s[i] * s[i]])

\* the place sort.Float64s gives s[i]: after the smaller values and after the
\* equal ones that stand before it
SortedPlace(s, i) ==
    Cardinality({j \in 1..Len(s) : s[j] < s[i] \/ (s[j] = s[i] /\ j < i)}) + 1

\* sort.Float64s, on the copy
SortFloats(s) ==
    [k \in 1..Len(s) |-> s[CHOOSE i \in 1..Len(s) : SortedPlace(s, i) = k]]

\* math.Ceil(num/den * n) for a probability num/den
CeilMul(num, den, n) == (num * n + den - 1) \div den

\* an index taken by truncation, without the - 1
quantileFloor(num, den, sorted) ==
    IF Len(sorted) = 0 THEN 0
    ELSE LET index == (num * Len(sorted)) \div den
             clamped == IF index >= Len(sorted) THEN Len(sorted) - 1 ELSE index
         IN  sorted[clamped + 1]

\* quantile(p, sorted), p = num/den
quantile(num, den, sorted) ==
    IF Len(sorted) = 0 THEN 0
    ELSE LET index == CeilMul(num, den, Len(sorted)) - 1
             clamped == IF index < 0 THEN 0
                        ELSE IF index >= Len(sorted) THEN Len(sorted) - 1
                        ELSE index
         IN  sorted[clamped + 1]

\* mean(vals)
mean(vals) ==
    IF Len(vals) = 0 THEN [num |-> 0, den |-> 1]
    ELSE [num |-> SumSeq(vals), den |-> Len(vals)]

\* stdDev(vals): the population variance num/den it takes the square root of
stdDev(vals) ==
    IF Len(vals) <= 1 THEN [num |-> 0, den |-> 1]
    ELSE [num |-> Len(vals) * SumSquares(vals) - SumSeq(vals) * SumSeq(vals),
          den |-> Len(vals) * Len(vals)]

\* the first value taken for the smallest
MinOfFirst(s) == s[1]

\* slices.Min, slices.Max
MinOf(s) == CHOOSE x \in {s[i] : i \in 1..Len(s)} : \A i \in 1..Len(s) : x <= s[i]

MaxOf(s) == CHOOSE x \in {s[i] : i \in 1..Len(s)} : \A i \in 1..Len(s) : x >= s[i]

\* a gate that is off by one: > where the code has >=
P95GateStrict(n) == n > P95MinN

\* the gates of CalcSummaryStats
P95Gate(n) == n >= P95MinN
P99Gate(n) == n >= P99MinN
ConfGate(n) == n >= ConfMinN

\* an empty-sample check that also turns a single value away
EmptySampleOffByOne(v) == Len(v) <= 1

\* if len(vals) == 0 { return summaryStatistics{}, errors.New("empty slice") }
EmptySample(v) == Len(v) = 0

\* the sample sorted where it stands, without the copy
ValsAfterSortedInPlace(v) == SortFloats(v)

\* the caller's slice after the call: sort.Float64s works on the copy
ValsAfter(v) == v

\* CalcSummaryStats(vals)
CalcSummaryStats(vals) ==
    IF EmptySample(vals) THEN [status |-> "err", err |-> "empty slice"]
    ELSE LET sorted == SortFloats(vals)
         IN  [status |-> "ok",
              Mean |-> mean(vals),
              Median |-> quantile(1, 2, sorted),
              P95 |-> IF P95Gate(Len(vals)) THEN <<quantile(95, 100, sorted)>> ELSE <<>>,
              P99 |-> IF P99Gate(Len(vals)) THEN <<quantile(99, 100, sorted)>> ELSE <<>>,
              \* 1.96 * sqrt(variance) / sqrt(n)
              ConfInt95 |-> IF ConfGate(Len(vals))
                            THEN <<[variance |-> stdDev(vals), n |-> Len(vals)]>>
                            ELSE <<>>,
              Min |-> MinOf(vals),
              Max |-> MaxOf(vals)]

-----------------------------------------------------------------------------
(* StatsSpec: CalcSummaryStats applied to a sample *)

SampleValues == {0, 1, 2, 5}
Patterns == {"up", "down", "same", "saw"}

PatternValue(p, n, i) ==
    CASE p = "up" -> i
      [] p = "down" -> n - i
      [] p = "same" -> 2
      [] p = "saw" -> (i * 7) % 5

Samples ==
    SeqsUpTo(SampleValues, MaxSmallSample)
        \cup {[i \in 1..n |-> PatternValue(p, n, i)] : n \in 1..MaxSample, p \in Patterns}

StatsInit ==
    /\ sample \in Samples
    /\ passed = sample
    /\ stats = Idle
    /\ store = NewCache /\ cacheOp = NoOp /\ watch = NoOp
    /\ OrchIdle

Summarize ==
    /\ stats = Idle
    /\ stats' = CalcSummaryStats(passed)
    /\ passed' = ValsAfter(passed)
    /\ UNCHANGED <<sample, store, OrchVars, CacheTestVars>>

StatsNext == Summarize

StatsSpec == StatsInit /\ [][StatsNext]_vars

\* C10: for a non-empty sample, P95 is set iff it has at least 20 values, P99 iff
\* at least 100 and ConfInt95 iff at least 30, whatever the values are.
C10_Gates ==
    stats.status = "ok" =>
        /\ (stats.P95 # <<>>) = (Len(sample) >= 20)
        /\ (stats.P99 # <<>>) = (Len(sample) >= 100)
        /\ (stats.ConfInt95 # <<>>) = (Len(sample) >= 30)

\* a sample of exactly 100 values has been summarized and has all three set
C10_Witness ==
    /\ stats.status = "ok"
    /\ Len(sample) = 100
    /\ stats.P95 # <<>> /\ stats.P99 # <<>> /\ stats.ConfInt95 # <<>>

\* the values of a sample
Elements(s) == {s[i] : i \in 1..Len(s)}

C12_EmptySample ==
    stats # Idle =>
        /\ Len(sample) = 0 => stats.status = "err" /\ DOMAIN stats = {"status", "err"}
        /\ Len(sample) > 0 => stats.status = "ok" /\ "err" \notin DOMAIN stats

\* the empty sample has been turned away
C12_Witness == stats # Idle /\ sample = <<>> /\ stats.status = "err"

-----------------------------------------------------------------------------
(* Values the backends answer with *)

\* strconv: the value strings of the model are blank, decimal integers or junk
DigitChars == {"0", "1", "2", "3", "4", "5", "6", "7", "8", "9"}

DigitVal(c) ==
    CASE c = "0" -> 0 [] c = "1" -> 1 [] c = "2" -> 2 [] c = "3" -> 3 [] c = "4" -> 4
      [] c = "5" -> 5 [] c = "6" -> 6 [] c = "7" -> 7 [] c = "8" -> 8 [] c = "9" -> 9

IsDigits(s) == Len(s) > 0 /\ \A i \in 1..Len(s) : s[i] \in DigitChars

RECURSIVE NatOf(_)
NatOf(s) ==
    IF s = <<>> THEN 0
    ELSE 10 * NatOf(SubSeq(s, 1, Len(s) - 1)) + DigitVal(s[Len(s)])

\* strconv.Atoi / strconv.ParseInt(s, 10, 0): an optional sign, then digits
Atoi(s) ==
    IF IsDigits(s) THEN [ok |-> TRUE, val |-> NatOf(s)]
    ELSE IF Len(s) > 1 /\ s[1] \in {"+", "-"} /\ IsDigits(Tail(s))
    THEN [ok |-> TRUE, val |-> IF s[1] = "-" THEN 0 - NatOf(Tail(s)) ELSE NatOf(Tail(s))]
    ELSE [ok |-> FALSE, val |-> 0]

\* strconv.ParseFloat(s, 64) on the value strings of the model, none of which
\* has a fraction, an exponent or a special value
ParseFloat(s) == Atoi(s)

\* float64 division: den = 0 stands for +Inf, -Inf or NaN
FloatDiv(a, b) == [num |-> a, den |-> b]

\* int(x) of a float64 counted in halves, and float64(i) back
ToInt(h) == h \div 2
FromInt(i) == 2 * i

\* resp.MetricDataResults of a FetchMetric that answers: no series, a series
\* without data points, one series, two series (sums 0, 0.5 and 1)
MetricResults ==
    {<<>>, << <<>> >>, << <<0>> >>, << <<1>> >>, << <<2>> >>, << <<1>>, <<1>> >>,
     << <<0, 1>>, <<>> >>}

\* cwTypes.MetricDataResult.Values, in halves
MetricValues == {0, 1, 2}

\* a sum that stops after the first series
SumMetricValuesFirstSeries(results) ==
    IF results = <<>> THEN 0 ELSE SumSeq(Head(results))

\* SumMetricValues
RECURSIVE SumMetricValues(_)
SumMetricValues(results) ==
    IF results = <<>> THEN 0
    ELSE SumSeq(Head(results)) + SumMetricValues(Tail(results))

\* the qualifier as it is put into the query template
RECURSIVE EscapeQualifier(_)
EscapeQualifier(q) ==
    IF q = <<>> THEN <<>>
    ELSE (IF Head(q) = "$" THEN <<"\\", "$">> ELSE <<Head(q)>>) \o EscapeQualifier(Tail(q))

Metrics ==
    {"ThrottleRate", "TimeoutRate", "ColdStartRate", "ErrorRate", "ErrorTypes",
     "Duration", "ColdStartDuration", "MemoryUsage", "WasteRatio"}

\* orchestrators whose numerator is a second metric
MetricOnly == {"ThrottleRate", "ErrorRate"}

\* orchestrators whose cache-taking body is under src/
CachedInSource ==
    {"ErrorRate", "TimeoutRate", "MemoryUsage", "ErrorTypes", "ColdStartDuration"}

\* orchestrators the facade and the tests call with the cache, whose cache-taking
\* body is not under src/: they resolve the denominator like the others
CachedPerFacade == {"ThrottleRate", "ColdStartRate", "Duration", "WasteRatio"}

UsesCache(m) == m \in CachedInSource \cup CachedPerFacade

\* the query template of an orchestrator's RunQuery call
Template(m, ph) ==
    CASE m = "TimeoutRate" /\ ph = 1 -> "LambdaUniqueRequestsWithVersion"
      [] m = "TimeoutRate" /\ ph = 2 -> "LambdaTimeoutQueryWithVersion"
      [] m = "ColdStartRate" -> "LambdaColdStartRateWithVersion"
      [] m = "ErrorTypes" -> "LambdaErrorTypesQueryWithVersion"
      [] m = "Duration" -> "LambdaDurationQueryWithVersion"
      [] m = "ColdStartDuration" -> "LambdaColdStartDurationQueryWithVersion"
      [] m = "MemoryUsage" -> "LambdaMemoryUtilizationQueryWithVersion"
      [] m = "WasteRatio" -> "LambdaBilledDurationQueryWithVersion"
      [] OTHER -> "caller"

\* queryString := fmt.Sprintf(template, escapedQualifier): the template and the
\* text at its substitution site; RunQuery called on its own gets the caller's text
QueryString(m, ph, q) ==
    IF m = "RunQuery" THEN [template |-> "caller", site |-> <<>>]
    ELSE [template |-> Template(m, ph), site |-> EscapeQualifier(q.Qualifier)]

NoQueryString == [template |-> "none", site |-> <<>>]

\* the fields the orchestrator reads from the rows of that query
Fields(m, ph) ==
    CASE m = "TimeoutRate" /\ ph = 1 -> <<"invocationsCount">>
      [] m = "TimeoutRate" /\ ph = 2 -> <<"timeoutCount">>
      [] m = "ColdStartRate" -> <<"totalInvocations", "coldStartLines">>
      [] m = "ErrorTypes" -> <<"error_category", "error_count">>
      [] m = "Duration" -> <<"durationMs">>
      [] m = "ColdStartDuration" -> <<"coldStartDurationMs">>
      [] m = "MemoryUsage" -> <<"memoryUtilizationRatio">>
      [] m = "WasteRatio" -> <<"totalDuration", "totalBilledDuration">>
      [] OTHER -> <<"a", "b">>

\* the values the log backend puts into a field
FieldValues(f) ==
    CASE f = "error_category" -> {<<>>, <<"x">>}
      [] f = "error_count" -> {<<"2">>, <<"x">>}
      [] f \in {"totalDuration", "totalBilledDuration"} -> {<<>>, <<"0">>, <<"2">>, <<"3">>, <<"x">>}
      [] f = "a" -> {<<"x">>, <<"z">>}
      [] f = "b" -> {<<"y">>}
      [] OTHER -> {<<>>, <<"0">>, <<"2">>, <<"x">>}

\* a row as the backend returns it: a list of ResultField{Field, Value}
ResultFields(fs) == UNION {[Field : {fs[i]}, Value : FieldValues(fs[i])] : i \in 1..Len(fs)}

\* rows that give the fields in the template's order, each at most once
RowsInOrder(fs) ==
    {r \in SeqsUpTo(ResultFields(fs), Len(fs)) :
        \A i, j \in 1..Len(r) : i < j =>
            \E a, b \in 1..Len(fs) : a < b /\ r[i].Field = fs[a] /\ r[j].Field = fs[b]}

\* rows that give them in any order, a field possibly twice
RowsAnyOrder(fs) == SeqsUpTo(ResultFields(fs), Len(fs))

\* templates that end in a stats command without a by clause: one summary row at most
Aggregates == {"TimeoutRate", "ColdStartRate", "WasteRatio"}

\* resp.Results of a Complete answer
BackendResults(m, ph) ==
    IF m = "RunQuery" THEN SeqsUpTo(RowsAnyOrder(Fields(m, ph)), 2)
    ELSE IF m \in Aggregates THEN SeqsUpTo(RowsInOrder(Fields(m, ph)), 1)
    ELSE SeqsUpTo(RowsInOrder(Fields(m, ph)), MaxRows)

\* m := map[string]string{}; for _, f := range row { m[*f.Field] = *f.Value }
RECURSIVE RowMap(_)
RowMap(row) ==
    IF row = <<>> THEN << >>
    ELSE LET init == RowMap(SubSeq(row, 1, Len(row) - 1))
             last == row[Len(row)]
         IN  [f \in DOMAIN init \cup {last.Field} |->
                 IF f = last.Field THEN last.Value ELSE init[f]]

\* rows put in front of the result instead of appended to it
RowsToMapsReversed(results) ==
    [i \in 1..Len(results) |-> RowMap(results[Len(results) + 1 - i])]

\* results = append(results, m), row by row
RowsToMaps(results) == [i \in 1..Len(results) |-> RowMap(results[i])]

\* row["field"]: the empty string for a missing field
Field(row, f) == IF f \in DOMAIN row THEN row[f] ELSE <<>>

-----------------------------------------------------------------------------
(* What a call returns *)

Ok(v) == [status |-> "ok", value |-> v]
Err(e) == [status |-> "err", err |-> e]
\* a run-time panic: the call returns neither a result nor an error
Panic(e) == [status |-> "panic", err |-> e]

Zero == [num |-> 0, den |-> 1]

\* a reading that takes a blank field for invalid data
ColdStartRateOfStrict(rows) ==
    IF Len(rows) = 0 THEN Panic("index out of range [0] with length 0")
    ELSE LET total == ParseFloat(Field(rows[1], "totalInvocations"))
             cold == ParseFloat(Field(rows[1], "coldStartLines"))
         IN  IF ~total.ok \/ ~cold.ok \/ total.val = 0
             THEN Err("invalid data from logs")
             ELSE Ok(FloatDiv(cold.val, total.val))

\* GetColdStartRate after RunQuery: results[0] is read without a length check
ColdStartRateOf(rows) ==
    IF Len(rows) = 0 THEN Panic("index out of range [0] with length 0")
    ELSE LET totalStr == Field(rows[1], "totalInvocations")
             coldStr == Field(rows[1], "coldStartLines")
             total == ParseFloat(totalStr)
             cold == ParseFloat(coldStr)
         IN  IF totalStr # <<>> /\ coldStr # <<>>
             THEN IF ~total.ok \/ ~cold.ok \/ total.val = 0
                  THEN Err("invalid data from logs")
                  ELSE Ok(FloatDiv(cold.val, total.val))
             ELSE Ok(Zero)

\* a guard that only looks for a blank total
WasteRatioOfBlankOnly(rows) ==
    LET durStr == IF Len(rows) > 0 THEN Field(rows[1], "totalDuration") ELSE <<>>
        billedStr == IF Len(rows) > 0 THEN Field(rows[1], "totalBilledDuration") ELSE <<>>
        dur == ParseFloat(durStr)
        billed == ParseFloat(billedStr)
    IN  IF durStr # <<>> /\ ~dur.ok THEN Err("parse totalDurationMs from logs")
        ELSE IF billedStr # <<>> /\ ~billed.ok THEN Err("parse totalBilledDurationMs from logs")
        ELSE IF durStr = <<>> THEN Err("total duration is zero, cannot calculate waste ratio")
        ELSE Ok(FloatDiv((IF billedStr # <<>> THEN billed.val ELSE 0) - dur.val,
                         IF billedStr # <<>> THEN billed.val ELSE 0))

\* GetWasteRatio after RunQuery
WasteRatioOf(rows) ==
    LET durStr == IF Len(rows) > 0 THEN Field(rows[1], "totalDuration") ELSE <<>>
        billedStr == IF Len(rows) > 0 THEN Field(rows[1], "totalBilledDuration") ELSE <<>>
        dur == ParseFloat(durStr)
        billed == ParseFloat(billedStr)
        totalDurationMs == IF durStr # <<>> THEN dur.val ELSE 0
        totalBilledDurationMs == IF billedStr # <<>> THEN billed.val ELSE 0
    IN  IF durStr # <<>> /\ ~dur.ok THEN Err("parse totalDurationMs from logs")
        ELSE IF billedStr # <<>> /\ ~billed.ok THEN Err("parse totalBilledDurationMs from logs")
        ELSE IF totalDurationMs = 0 THEN Err("total duration is zero, cannot calculate waste ratio")
        ELSE Ok(FloatDiv(totalBilledDurationMs - totalDurationMs, totalBilledDurationMs))

UnknownError == <<"UnknownError">>

\* a loop that keeps a blank category as it is
RECURSIVE ErrorTypesOfKeepBlank(_)
ErrorTypesOfKeepBlank(rows) ==
    IF rows = <<>> THEN <<>>
    ELSE LET row == Head(rows)
             category == IF "error_category" \notin DOMAIN row
                         THEN <<"UnknownError">> ELSE row["error_category"]
             count == Atoi(Field(row, "error_count"))
             rest == ErrorTypesOfKeepBlank(Tail(rows))
         IN  IF "error_count" \notin DOMAIN row THEN rest
             ELSE IF ~count.ok THEN rest
             ELSE <<[ErrorCategory |-> category, ErrorCount |-> count.val]>> \o rest

\* GetErrorTypes after RunQuery: the loop over the rows
RECURSIVE ErrorTypesOf(_)
ErrorTypesOf(rows) ==
    IF rows = <<>> THEN <<>>
    ELSE LET row == Head(rows)
             category == IF "error_category" \notin DOMAIN row \/ row["error_category"] = <<>>
                         THEN UnknownError ELSE row["error_category"]
             count == Atoi(Field(row, "error_count"))
             rest == ErrorTypesOf(Tail(rows))
         IN  IF "error_count" \notin DOMAIN row THEN rest
             ELSE IF ~count.ok THEN rest
             ELSE <<[ErrorCategory |-> category, ErrorCount |-> count.val]>> \o rest

\* a loop that stops at the first value that does not parse
RECURSIVE SampleOfUntilBad(_, _)
SampleOfUntilBad(rows, f) ==
    IF rows = <<>> THEN <<>>
    ELSE LET row == Head(rows)
         IN  IF f \in DOMAIN row /\ ~ParseFloat(row[f]).ok THEN <<>>
             ELSE IF f \in DOMAIN row
             THEN <<ParseFloat(row[f]).val>> \o SampleOfUntilBad(Tail(rows), f)
             ELSE SampleOfUntilBad(Tail(rows), f)

\* the loop that collects the values of one field that parse
RECURSIVE SampleOf(_, _)
SampleOf(rows, f) ==
    IF rows = <<>> THEN <<>>
    ELSE LET row == Head(rows)
             rest == SampleOf(Tail(rows), f)
         IN  IF f \in DOMAIN row /\ ParseFloat(row[f]).ok
             THEN <<ParseFloat(row[f]).val>> \o rest
             ELSE rest

\* the duration, cold-start-duration and memory-usage orchestrators after RunQuery
StatisticsOf(rows, f) ==
    LET st == CalcSummaryStats(SampleOf(rows, f))
    IN  IF st.status = "err" THEN Err("error calculating summary statistics") ELSE Ok(st)

\* a reading that takes a count that does not parse for 0
CountOfLenient(rows, f) ==
    IF Len(rows) > 0 /\ Field(rows[1], f) # <<>> /\ Atoi(Field(rows[1], f)).ok
    THEN Atoi(Field(rows[1], f))
    ELSE [ok |-> TRUE, val |-> 0]

\* GetTimeoutRate: a count read from the first row, 0 when there is none or it is blank
CountOf(rows, f) ==
    IF Len(rows) > 0 /\ Field(rows[1], f) # <<>>
    THEN Atoi(Field(rows[1], f))
    ELSE [ok |-> TRUE, val |-> 0]

\* what a log-derived orchestrator other than GetTimeoutRate returns for the rows
NumeratorOf(m, rows) ==
    CASE m = "ColdStartRate" -> ColdStartRateOf(rows)
      [] m = "WasteRatio" -> WasteRatioOf(rows)
      [] m = "ErrorTypes" -> Ok(ErrorTypesOf(rows))
      [] m = "Duration" -> StatisticsOf(rows, "durationMs")
      [] m = "ColdStartDuration" -> StatisticsOf(rows, "coldStartDurationMs")
      [] m = "MemoryUsage" -> StatisticsOf(rows, "memoryUtilizationRatio")
      [] m = "RunQuery" -> Ok(rows)

-----------------------------------------------------------------------------
(* Spec: orchestrator calls on one cache, one after the other.
   RunQuerySpec: RunQuery called on its own (metric = "RunQuery").            *)

\* a context that never gets the deadline of context.WithTimeout
CtxDoneNoDeadline(c, a, e) == c

\* ctx.Done() of the context RunQuery polls with: the caller's cancellation,
\* or the deadline of context.WithTimeout once it is armed
CtxDone(c, a, e) == c \/ (a /\ e >= TimeoutMs)

\* the statuses the switch in RunQuery has no case for
OtherStatuses == {"Scheduled", "Running"}
FailedStatuses == {"Failed", "Cancelled"}

\* how long a GetQueryResults call takes
Latencies == {n * SleepMs : n \in 0..MaxLatencySleeps}

\* the backend may keep a query non-terminal: without limit under RunQuerySpec,
\* MaxRunningPolls times per query under Spec
MayStayRunning == metric = "RunQuery" \/ polls < MaxRunningPolls

NewHist(written, was) ==
    [active |-> TRUE, written |-> written, wasWritten |-> was,
     resolved |-> "no", invFetch |-> 0, reqs |-> 0, errSeen |-> FALSE, reqAfterErr |-> FALSE,
     sleeps |-> 0, submit |-> "none", doneAtIssue |-> FALSE, doneAtReturn |-> FALSE,
     lastAnswer |-> "none", backendRows |-> <<>>, handed |-> <<>>,
     submits |-> 0, completes |-> 0, queryString |-> NoQueryString,
     storeAtCall |-> NewCache]

\* a backend request is issued, and fails or not
Req(h, failed) ==
    [h EXCEPT !.reqs = @ + 1, !.reqAfterErr = @ \/ h.errSeen, !.errSeen = @ \/ failed]

\* a fresh cache and no call made yet
OrchStart ==
    /\ store = NewCache
    /\ pc = "idle" /\ metric = "none" /\ query = NoQuery /\ invSum = 0
    /\ phase = 0 /\ invCount = 0 /\ cancelled = FALSE /\ armed = FALSE
    /\ elapsed = 0 /\ polls = 0 /\ result = Idle
    /\ hist = [NewHist({}, FALSE) EXCEPT !.active = FALSE]
    /\ cacheOp = NoOp /\ watch = NoOp
    /\ StatsIdle
    /\ LockIdle

OrchInit == OrchStart /\ fetched = <<>> /\ held = <<>>

Frame ==
    UNCHANGED <<metric, query, fetched, held, cacheOp, watch, sample, passed, stats,
                mu, threads, sets>>

\* the call returns r
Return(r) == pc' = "done" /\ result' = r

\* a caller calls orchestrator m with query q and a live context
StartCall(m, q) ==
    /\ pc \in {"idle", "done"}
    /\ pc' = (IF m = "RunQuery" THEN "submit" ELSE "resolve")
    /\ metric' = m /\ query' = q
    /\ invSum' = 0 /\ phase' = 1 /\ invCount' = 0
    /\ cancelled' = FALSE /\ armed' = FALSE /\ elapsed' = 0 /\ polls' = 0
    /\ result' = Idle
    /\ hist' = [NewHist(hist.written, KeyOf(q) \in hist.written) EXCEPT
                   !.storeAtCall = store]
    /\ UNCHANGED <<store, fetched, held, cacheOp, watch, sample, passed, stats,
                   mu, threads, sets>>

\* the caller cancels the context it passed in
CallerCancel ==
    /\ pc \in {"resolve", "numerator", "submit", "sleep", "poll"}
    /\ ~cancelled
    /\ cancelled' = TRUE
    /\ UNCHANGED <<store, pc, invSum, phase, invCount, armed, elapsed, polls, result, hist>>
    /\ Frame

\* a zero check that lets 0 through
ZeroCheckNegative(sum) == sum < 0

\* if invocationsSum == 0 { return nil, &sdkerrors.NoInvocationsError{...} }
ZeroCheck(sum) == sum = 0

\* the denominator is known: NoInvocations, or on to the numerator
Denominator(sum) ==
    /\ invSum' = sum
    /\ IF ZeroCheck(sum)
       THEN Return(Err("NoInvocations"))
       ELSE /\ pc' = (IF metric \in MetricOnly THEN "numerator" ELSE "submit")
            /\ result' = result

\* a lookup that never finds the key
CacheHitNever(st, q) == FALSE

\* if invocationsCache.Has(key) { invocations, _ := invocationsCache.Get(key) ... }
CacheHit(st, q) == Has(st, KeyOf(q))

\* the cache branch of the denominator step
ResolveFromCache ==
    /\ UsesCache(metric) /\ CacheHit(store, query)
    /\ Denominator(FromInt(Get(store, KeyOf(query)).count))
    /\ hist' = [hist EXCEPT !.resolved = "cache"]
    /\ UNCHANGED store

\* a failed fetch that leaves a count of 0 behind
AfterFailedFetchZero(st, q) == Set(st, KeyOf(q), 0)

\* if err != nil { return nil, fmt.Errorf("fetch invocations metric: %w", err) }:
\* the cache as the return leaves it
AfterFailedFetch(st, q) == st

\* the fetch branch: FetchMetric "Invocations" fails
FetchInvocationsFails ==
    /\ ~(UsesCache(metric) /\ CacheHit(store, query))
    /\ Return(Err("fetch invocations metric"))
    /\ hist' = [Req(hist, TRUE) EXCEPT !.invFetch = @ + 1]
    /\ store' = AfterFailedFetch(store, query)
    /\ UNCHANGED invSum

\* a Set that is left out
CacheWriteSkipped(st, q, sum) == st

\* invocationsCache.Set(key, int(invocationsSum))
CacheWrite(st, q, sum) == Set(st, KeyOf(q), ToInt(sum))

\* the fetch branch: FetchMetric "Invocations" answers with series
FetchInvocationsAnswers(series) ==
    /\ ~(UsesCache(metric) /\ CacheHit(store, query))
    /\ ~cancelled
    /\ Denominator(SumMetricValues(series))
    /\ store' = (IF UsesCache(metric) THEN CacheWrite(store, query, SumMetricValues(series))
                 ELSE store)
    /\ hist' = [Req(hist, FALSE) EXCEPT !.invFetch = @ + 1, !.resolved = "fetch",
                                        !.written = IF UsesCache(metric)
                                                    THEN @ \cup {KeyOf(query)} ELSE @]

\* the denominator step of every orchestrator
ResolveDenominator ==
    /\ pc = "resolve"
    /\ \/ ResolveFromCache
       \/ FetchInvocationsFails
       \/ \E series \in MetricResults : FetchInvocationsAnswers(series)
    /\ UNCHANGED <<phase, invCount, cancelled, armed, elapsed, polls>>
    /\ Frame

\* GetErrorRate / GetThrottleRate: the second FetchMetric and the division
NumeratorFetch ==
    /\ pc = "numerator"
    /\ \/ /\ Return(Err("fetch numerator metric"))
          /\ hist' = Req(hist, TRUE)
       \/ /\ ~cancelled
          /\ \E series \in MetricResults :
                Return(Ok(FloatDiv(SumMetricValues(series), invSum)))
          /\ hist' = Req(hist, FALSE)
    /\ UNCHANGED <<store, invSum, phase, invCount, cancelled, armed, elapsed, polls>>
    /\ Frame

-----------------------------------------------------------------------------
(* Fetcher.RunQuery *)

SubmitAnswers == {"error", "no id", "id"}

\* if err != nil { return nil, err }
SubmitRejected(r) == r = "error"

\* a missing query id that goes unnoticed
NoQueryIdIgnored(r) == FALSE

\* if startResp.QueryId == nil { return nil, errors.New("no query ID returned") }
NoQueryId(r) == r = "no id"

\* StartQuery, the two checks of its answer, context.WithTimeout
RQSubmit ==
    /\ pc = "submit"
    /\ \E r \in SubmitAnswers :
          /\ cancelled => r = "error"
          /\ hist' = [Req(hist, r = "error") EXCEPT
                         !.submit = r, !.submits = @ + 1,
                         !.queryString = QueryString(metric, phase, query)]
          /\ IF SubmitRejected(r)
             THEN Return(Err("start query")) /\ UNCHANGED <<armed, elapsed, polls>>
             ELSE IF NoQueryId(r)
             THEN Return(Err("no query ID returned")) /\ UNCHANGED <<armed, elapsed, polls>>
             ELSE /\ armed' = TRUE /\ elapsed' = 0 /\ polls' = 0
                  /\ pc' = "sleep" /\ result' = result
    /\ UNCHANGED <<store, invSum, phase, invCount, cancelled>>
    /\ Frame

\* time.Sleep(500 * time.Millisecond): not interrupted by the context
RQSleep ==
    /\ pc = "sleep"
    /\ elapsed' = elapsed + SleepMs
    /\ pc' = "poll"
    /\ hist' = [hist EXCEPT !.sleeps = @ + 1]
    /\ UNCHANGED <<store, invSum, phase, invCount, cancelled, armed, polls, result>>
    /\ Frame

\* select { case <-ctx.Done(): return nil, fmt.Errorf("query polling timed out") ... }
TimedOut(done) == done

\* GetTimeoutRate between its two queries, or after the second; n polls were made
TimeoutRateStep(rows, n) ==
    LET count == CountOf(rows, IF phase = 1 THEN "invocationsCount" ELSE "timeoutCount")
    IN  IF ~count.ok
        THEN /\ Return(Err(IF phase = 1 THEN "parse invocationsCount from logs"
                                        ELSE "parse timeoutCount from logs"))
             /\ polls' = n
             /\ UNCHANGED <<phase, invCount, armed>>
        ELSE IF phase = 1
        THEN /\ invCount' = count.val /\ phase' = 2
             /\ pc' = "submit" /\ result' = result
             /\ armed' = FALSE /\ polls' = 0
        ELSE /\ Return(Ok(FloatDiv(count.val, invCount)))
             /\ polls' = n
             /\ UNCHANGED <<phase, invCount, armed>>

\* RunQuery returns the rows after n polls, and the orchestrator goes on with them
OnComplete(results, n) ==
    IF metric = "TimeoutRate"
    THEN TimeoutRateStep(RowsToMaps(results), n)
    ELSE /\ Return(NumeratorOf(metric, RowsToMaps(results)))
         /\ polls' = n
         /\ UNCHANGED <<phase, invCount, armed>>

\* a failed poll that is tried again after the next sleep
PollFailedRetry(e) == pc' = "sleep" /\ result' = result

\* the poll fails: if err != nil { return nil, err }
PollFailed(e) == Return(Err(e))

\* what a poll adds to the history of the call
PollHist(answer, failed, done) ==
    [Req(hist, failed) EXCEPT !.doneAtIssue = FALSE, !.doneAtReturn = done,
                              !.lastAnswer = answer]

\* orchestrators that summarize one field of the rows
StatMetrics == {"Duration", "ColdStartDuration", "MemoryUsage"}

\* case cloudwatchlogstypes.QueryStatusComplete: the rows are returned
PollComplete(results, done) ==
    /\ hist' = [PollHist("Complete", FALSE, done) EXCEPT
                   !.backendRows = IF metric = "RunQuery" THEN results ELSE @,
                   !.completes = @ + 1,
                   !.handed = IF metric \in StatMetrics
                              THEN SampleOf(RowsToMaps(results), Fields(metric, 1)[1])
                              ELSE @]
    /\ OnComplete(results, polls + 1)

\* one GetQueryResults call, the switch on its status and the check of ctx.Done()
RQPoll ==
    /\ pc = "poll"
    /\ IF CtxDone(cancelled, armed, elapsed)
       THEN \* the call is made with a context that is done, and fails
            /\ PollFailed("context")
            /\ hist' = [Req(hist, TRUE) EXCEPT !.doneAtIssue = TRUE, !.doneAtReturn = TRUE,
                                                 !.lastAnswer = "error"]
            /\ polls' = polls + 1
            /\ UNCHANGED <<phase, invCount, cancelled, armed, elapsed>>
       ELSE \E lat \in Latencies, cancelNow \in BOOLEAN :
            LET done == CtxDone(cancelNow, armed, elapsed + lat)
            IN  /\ elapsed' = elapsed + lat
                /\ cancelled' = cancelNow
                /\ \/ /\ PollFailed(IF done THEN "context" ELSE "get query results")
                      /\ hist' = PollHist("error", TRUE, done)
                      /\ polls' = polls + 1
                      /\ UNCHANGED <<phase, invCount, armed>>
                   \/ \E results \in BackendResults(metric, phase) :
                         PollComplete(results, done)
                   \/ \E status \in FailedStatuses :
                         /\ Return(Err("query failed with status: " \o status))
                         /\ hist' = PollHist(status, FALSE, done)
                         /\ polls' = polls + 1
                         /\ UNCHANGED <<phase, invCount, armed>>
                   \/ \E status \in OtherStatuses :
                         /\ MayStayRunning
                         /\ hist' = PollHist(status, FALSE, done)
                         /\ polls' = polls + 1
                         /\ IF TimedOut(done)
                            THEN Return(Err("query polling timed out"))
                            ELSE pc' = "sleep" /\ result' = result
                         /\ UNCHANGED <<phase, invCount, armed>>
    /\ UNCHANGED <<store, invSum>>
    /\ Frame

-----------------------------------------------------------------------------

Next ==
    \/ \E m \in Metrics, q \in Queries : StartCall(m, q)
    \/ CallerCancel
    \/ ResolveDenominator
    \/ NumeratorFetch
    \/ RQSubmit
    \/ RQSleep
    \/ RQPoll

Spec == OrchInit /\ [][Next]_vars

RunQueryNext ==
    \/ StartCall("RunQuery", CHOOSE q \in Queries : TRUE)
    \/ CallerCancel
    \/ RQSubmit
    \/ RQSleep
    \/ RQPoll

RunQuerySpec == OrchInit /\ [][RunQueryNext]_vars

\* the scheduler keeps the calling goroutine running: every sleep ends and
\* every backend call returns
RunQueryFairSpec ==
    RunQuerySpec /\ WF_vars(RQSubmit) /\ WF_vars(RQSleep) /\ WF_vars(RQPoll)

-----------------------------------------------------------------------------
(* SumSpec: GetErrorRate resolves its denominator from the series the metrics
   backend holds *)

SumInit ==
    /\ OrchStart /\ held = <<>>
    /\ fetched \in SeqsUpTo(SeqsUpTo(MetricValues, MaxPoints), MaxSeries)

\* FetchMetric "Invocations" answers with the series the backend holds
ResolveFetched ==
    /\ pc = "resolve"
    /\ FetchInvocationsAnswers(fetched)
    /\ UNCHANGED <<phase, invCount, cancelled, armed, elapsed, polls>>
    /\ Frame

SumNext ==
    \/ StartCall("ErrorRate", CHOOSE q \in Queries : TRUE)
    \/ ResolveFetched

SumSpec == SumInit /\ [][SumNext]_vars

-----------------------------------------------------------------------------
(* RowsSpec: the log-derived orchestrators with a single log query, run on
   the rows the log backend holds *)

LogMetrics ==
    {"ColdStartRate", "WasteRatio", "ErrorTypes", "Duration", "ColdStartDuration",
     "MemoryUsage"}

RowsInit ==
    /\ OrchStart /\ fetched = <<>>
    /\ held \in UNION {BackendResults(m, 1) : m \in LogMetrics}

\* the first poll finds the query Complete, with the rows the backend holds
PollHeld ==
    /\ pc = "poll"
    /\ ~CtxDone(cancelled, armed, elapsed)
    /\ PollComplete(held, FALSE)
    /\ UNCHANGED <<store, invSum, elapsed, cancelled>>
    /\ Frame

RowsNext ==
    \/ \E m \in LogMetrics :
          /\ held \in BackendResults(m, 1)
          /\ StartCall(m, CHOOSE q \in Queries : TRUE)
    \/ ResolveDenominator
    \/ RQSubmit
    \/ RQSleep
    \/ PollHeld

RowsSpec == RowsInit /\ [][RowsNext]_vars

-----------------------------------------------------------------------------
(* TimeoutSpec: GetTimeoutRate run on the rows the log backend holds for its
   two queries *)

TimeoutInit ==
    /\ OrchStart /\ fetched = <<>>
    /\ held \in {<<first, second>> : first \in BackendResults("TimeoutRate", 1),
                                     second \in BackendResults("TimeoutRate", 2)}

\* the first poll of a query finds it Complete, with the rows held for it
PollHeldOfPhase ==
    /\ pc = "poll"
    /\ ~CtxDone(cancelled, armed, elapsed)
    /\ PollComplete(held[phase], FALSE)
    /\ UNCHANGED <<store, invSum, elapsed, cancelled>>
    /\ Frame

TimeoutNext ==
    \/ \E q \in Queries : StartCall("TimeoutRate", q)
    \/ ResolveDenominator
    \/ RQSubmit
    \/ RQSleep
    \/ PollHeldOfPhase

TimeoutSpec == TimeoutInit /\ [][TimeoutNext]_vars

-----------------------------------------------------------------------------
(* EscapeSpec: the log-derived orchestrators called with every qualifier, on
   a log backend that holds no rows *)

QualifierQueries ==
    {[FunctionName |-> <<"f">>, Qualifier |-> ql, StartTime |-> 0, EndTime |-> 4] :
        ql \in Qualifiers}

\* the first poll finds the query Complete, without rows
PollEmpty ==
    /\ pc = "poll"
    /\ ~CtxDone(cancelled, armed, elapsed)
    /\ PollComplete(<<>>, FALSE)
    /\ UNCHANGED <<store, invSum, elapsed, cancelled>>
    /\ Frame

EscapeNext ==
    \/ \E m \in Metrics \ MetricOnly, q \in QualifierQueries : StartCall(m, q)
    \/ ResolveDenominator
    \/ RQSubmit
    \/ RQSleep
    \/ PollEmpty

EscapeSpec == OrchInit /\ [][EscapeNext]_vars

-----------------------------------------------------------------------------
(* Cache.mu, a sync.RWMutex *)

Goroutines == 1..MaxGoroutines

\* RLock returns when no writer holds the lock, Lock when nobody holds it
CanRLock(m) == m.writer = 0
CanLock(m) == m.writer = 0 /\ m.readers = {}

RLock(m, t) == [m EXCEPT !.readers = @ \cup {t}]
Lock(m, t) == [m EXCEPT !.writer = t]

\* an RUnlock that leaves the read lock held
RUnlockKept(m, t) == m

\* defer c.mu.RUnlock()
RUnlock(m, t) == [m EXCEPT !.readers = @ \ {t}]

\* defer c.mu.Unlock()
Unlock(m, t) == [m EXCEPT !.writer = 0]

\* everything but the cache and the goroutines stays as constructed
Alone ==
    /\ pc = "idle" /\ metric = "none" /\ query = NoQuery /\ invSum = 0
    /\ phase = 0 /\ invCount = 0 /\ cancelled = FALSE /\ armed = FALSE
    /\ elapsed = 0 /\ polls = 0 /\ result = Idle /\ hist = NoHist
    /\ fetched = <<>> /\ held = <<>> /\ cacheOp = NoOp /\ watch = NoOp
    /\ StatsIdle

AloneVars ==
    <<pc, metric, query, invSum, phase, invCount, cancelled, armed, elapsed, polls,
      result, hist, fetched, held, cacheOp, watch, sample, passed, stats>>

-----------------------------------------------------------------------------
(* LockSpec: goroutines that call Has, Get and Set on one Cache *)

\* the counts the writers pass to Set
LockCounts == {1, 2}

\* two keys of one function and qualifier
LockKeys == {k \in CacheKeys : k.FunctionName = <<"f">> /\ k.Qualifier = <<"q">>}

Resting == [pc |-> "idle", op |-> "none", key |-> CHOOSE k \in LockKeys : TRUE,
            count |-> 0, found |-> FALSE]

LockInit ==
    /\ store = NewCache /\ mu = NoLock /\ sets = {}
    /\ threads = [t \in Goroutines |-> Resting]
    /\ Alone

\* goroutine t calls c.Has(k), c.Get(k) or c.Set(k, v)
CacheCall(t) ==
    /\ threads[t].pc = "idle"
    /\ \E k \in LockKeys :
          \/ /\ \E op \in {"Has", "Get"} :
                   threads' = [threads EXCEPT ![t] =
                                  [pc |-> "lock", op |-> op, key |-> k, count |-> 0,
                                   found |-> FALSE]]
             /\ sets' = sets
          \/ \E v \in LockCounts :
                /\ threads' = [threads EXCEPT ![t] =
                                  [pc |-> "lock", op |-> "Set", key |-> k, count |-> v,
                                   found |-> FALSE]]
                /\ sets' = sets \cup {<<k, v>>}
    /\ UNCHANGED <<store, mu>>

\* c.mu.RLock() or c.mu.Lock() returns
CacheLock(t) ==
    /\ threads[t].pc = "lock"
    /\ IF threads[t].op = "Set"
       THEN CanLock(mu) /\ mu' = Lock(mu, t)
       ELSE CanRLock(mu) /\ mu' = RLock(mu, t)
    /\ threads' = [threads EXCEPT ![t].pc = "map"]
    /\ UNCHANGED <<store, sets>>

\* the map is read or written, the deferred unlock runs, the call returns
CacheReturn(t) ==
    /\ threads[t].pc = "map"
    /\ LET me == threads[t]
       IN  CASE me.op = "Has" ->
                  /\ threads' = [threads EXCEPT ![t].pc = "idle",
                                                ![t].found = Has(store, me.key)]
                  /\ mu' = RUnlock(mu, t) /\ store' = store
             [] me.op = "Get" ->
                  /\ threads' = [threads EXCEPT ![t].pc = "idle",
                                                ![t].count = Get(store, me.key).count,
                                                ![t].found = Get(store, me.key).found]
                  /\ mu' = RUnlock(mu, t) /\ store' = store
             [] me.op = "Set" ->
                  /\ threads' = [threads EXCEPT ![t].pc = "idle"]
                  /\ mu' = Unlock(mu, t) /\ store' = Set(store, me.key, me.count)
    /\ sets' = sets

LockNext ==
    /\ \E t \in Goroutines : CacheCall(t) \/ CacheLock(t) \/ CacheReturn(t)
    /\ UNCHANGED AloneVars

LockSpec == LockInit /\ [][LockNext]_vars

-----------------------------------------------------------------------------
(* SharedSpec: orchestrator calls that run concurrently on one cache *)

SharedQueries == {q \in Queries : q.StartTime = 0}

\* the sums FetchMetric "Invocations" can answer with
SharedSums == {SumMetricValues(series) : series \in MetricResults}

NoCall == [pc |-> "idle", query |-> NoQuery, sum |-> 0]

SharedInit ==
    /\ store = NewCache /\ mu = NoLock /\ sets = {}
    /\ threads = [t \in Goroutines |-> NoCall]
    /\ Alone

At(t, where) == threads[t].pc = where
Goto(t, where) == threads' = [threads EXCEPT ![t].pc = where]

\* the positions at which a call waits for a backend or sleeps
NetworkWaits == {"fetch", "numerator", "sleep", "poll"}

\* a goroutine calls an orchestrator with query q
SharedCall(t) ==
    /\ At(t, "idle")
    /\ \E q \in SharedQueries :
          threads' = [threads EXCEPT ![t] = [pc |-> "has", query |-> q, sum |-> 0]]
    /\ UNCHANGED <<store, mu>>

\* invocationsCache.Has(key) or invocationsCache.Get(key): the read lock is taken
ReadLock(t) ==
    /\ At(t, "has") \/ At(t, "get")
    /\ CanRLock(mu)
    /\ mu' = RLock(mu, t) /\ Goto(t, IF At(t, "has") THEN "hasMap" ELSE "getMap")
    /\ store' = store

\* Has reads the map, unlocks and returns; the call goes on to Get or to FetchMetric
HasReturn(t) ==
    /\ At(t, "hasMap")
    /\ mu' = RUnlock(mu, t)
    /\ Goto(t, IF CacheHit(store, threads[t].query) THEN "get" ELSE "fetch")
    /\ store' = store

\* Get reads the map, unlocks and returns; invocationsSum = float64(invocations);
\* the call ends with NoInvocationsError or goes on to its numerator
GetReturn(t) ==
    /\ At(t, "getMap")
    /\ mu' = RUnlock(mu, t)
    /\ LET sum == FromInt(Get(store, KeyOf(threads[t].query)).count)
       IN  threads' = [threads EXCEPT ![t] =
                          IF ZeroCheck(sum) THEN NoCall
                          ELSE [@ EXCEPT !.pc = "numerator"]]
    /\ store' = store

\* FetchMetric "Invocations" fails, or answers with a sum
SharedFetch(t) ==
    /\ At(t, "fetch")
    /\ \/ threads' = [threads EXCEPT ![t] = NoCall]
       \/ \E sum \in SharedSums :
             threads' = [threads EXCEPT ![t].pc = "set", ![t].sum = sum]
    /\ UNCHANGED <<store, mu>>

\* invocationsCache.Set(key, int(invocationsSum)): the write lock is taken
SetLock(t) ==
    /\ At(t, "set") /\ CanLock(mu)
    /\ mu' = Lock(mu, t) /\ Goto(t, "setMap")
    /\ store' = store

\* Set writes the map, unlocks and returns; the zero check follows
SetReturn(t) ==
    /\ At(t, "setMap")
    /\ mu' = Unlock(mu, t)
    /\ store' = CacheWrite(store, threads[t].query, threads[t].sum)
    /\ threads' = [threads EXCEPT ![t] =
                      IF ZeroCheck(threads[t].sum) THEN NoCall
                      ELSE [@ EXCEPT !.pc = "numerator", !.sum = 0]]

\* the numerator: a second FetchMetric, or StartQuery, which fails or gives an id
SharedNumerator(t) ==
    /\ At(t, "numerator")
    /\ \/ threads' = [threads EXCEPT ![t] = NoCall]
       \/ Goto(t, "sleep")
    /\ UNCHANGED <<store, mu>>

\* time.Sleep(500 * time.Millisecond)
SharedSleep(t) ==
    /\ At(t, "sleep") /\ Goto(t, "poll")
    /\ UNCHANGED <<store, mu>>

\* GetQueryResults: the query still runs, or the call returns
SharedPoll(t) ==
    /\ At(t, "poll")
    /\ \/ Goto(t, "sleep")
       \/ threads' = [threads EXCEPT ![t] = NoCall]
    /\ UNCHANGED <<store, mu>>

SharedNext ==
    /\ \E t \in Goroutines :
          \/ SharedCall(t)
          \/ ReadLock(t) \/ HasReturn(t) \/ GetReturn(t)
          \/ SharedFetch(t)
          \/ SetLock(t) \/ SetReturn(t)
          \/ SharedNumerator(t) \/ SharedSleep(t) \/ SharedPoll(t)
    /\ sets' = sets
    /\ UNCHANGED AloneVars

SharedSpec == SharedInit /\ [][SharedNext]_vars

-----------------------------------------------------------------------------
(* Claims *)

\* C1: once an orchestrator call has resolved its denominator to 0, from the
\* cache or from a fresh fetch, it has returned a NoInvocationsError and has
\* issued no request for a numerator.
C1_NoInvocations ==
    hist.active /\ hist.resolved # "no" /\ invSum = 0 =>
        /\ pc = "done"
        /\ result = Err("NoInvocations")
        /\ hist.reqs = hist.invFetch

\* a call found 0 in the cache and returned NoInvocations
C1_Witness ==
    /\ hist.active /\ hist.resolved = "cache" /\ invSum = 0
    /\ pc = "done" /\ result = Err("NoInvocations")

MaxPolls == TimeoutMs \div SleepMs

\* C4: a RunQuery call makes at most TimeoutMs / SleepMs status polls, and a
\* call that has entered the poll loop returns, whatever the backend answers.
C4_Terminates ==
    /\ [](metric = "RunQuery" => polls <= MaxPolls)
    /\ (metric = "RunQuery" /\ pc = "sleep") ~> (pc = "done")

\* the deadline, not the caller, has stopped a loop whose query never ended
C4_Witness ==
    /\ metric = "RunQuery" /\ pc = "done" /\ ~cancelled
    /\ elapsed >= TimeoutMs /\ polls > 10
    /\ hist.lastAnswer \in OtherStatuses
    /\ result = Err("query polling timed out")

\* C5: when the context was done (cancelled by the caller, or past the
\* deadline) before the answer of the last poll was looked at, RunQuery has
\* returned a timeout failure and no rows.
C5_SignalAborts ==
    metric = "RunQuery" /\ pc = "done" /\ hist.submit = "id" /\ hist.doneAtReturn =>
        result \in {Err("query polling timed out"), Err("context")}

\* what the map of a row must be: the fields of the row, each with the value
\* of its last occurrence
IsMapOf(m, row) ==
    /\ DOMAIN m = {row[i].Field : i \in 1..Len(row)}
    /\ \A i \in 1..Len(row) :
          (\A j \in (i + 1)..Len(row) : row[j].Field # row[i].Field) =>
              m[row[i].Field] = row[i].Value

\* C6: after a Complete answer RunQuery has returned one map per row, in the
\* order of the rows; after Failed or Cancelled an error that names the
\* status; after any other status neither rows nor a status error.
C6_FirstTerminalStatus ==
    metric = "RunQuery" =>
        /\ hist.lastAnswer = "Complete" =>
              /\ pc = "done" /\ result.status = "ok"
              /\ Len(result.value) = Len(hist.backendRows)
              /\ \A i \in 1..Len(hist.backendRows) :
                    IsMapOf(result.value[i], hist.backendRows[i])
        /\ hist.lastAnswer = "Failed" =>
              pc = "done" /\ result = Err("query failed with status: Failed")
        /\ hist.lastAnswer = "Cancelled" =>
              pc = "done" /\ result = Err("query failed with status: Cancelled")
        /\ hist.lastAnswer \in OtherStatuses =>
              /\ result.status # "ok"
              /\ result.status = "err" => result.err = "query polling timed out"

\* a Complete answer of two different rows has been returned
C6_Witness ==
    /\ metric = "RunQuery" /\ pc = "done" /\ hist.lastAnswer = "Complete"
    /\ Len(hist.backendRows) = 2 /\ hist.backendRows[1] # hist.backendRows[2]
    /\ Len(hist.backendRows[1]) = 2
    /\ hist.backendRows[1][1].Field = hist.backendRows[1][2].Field

\* C7: when StartQuery failed or answered without a query id, RunQuery has
\* returned an error without a sleep and without a poll.
C7_SubmitFails ==
    metric = "RunQuery" /\ hist.submit \in {"error", "no id"} =>
        /\ pc = "done" /\ result.status = "err"
        /\ hist.sleeps = 0 /\ polls = 0 /\ hist.reqs = 1

\* StartQuery answered without a query id
C7_Witness ==
    metric = "RunQuery" /\ hist.submit = "no id" /\ pc = "done" /\ result.status = "err"

\* C8: within one orchestrator call no backend request follows a failed one:
\* the call has returned an error as soon as a request failed.
C8_NoRetry ==
    hist.active =>
        /\ ~hist.reqAfterErr
        /\ hist.errSeen => pc = "done" /\ result.status = "err"

\* a status poll failed after a fetch, a submission and an earlier poll
C8_Witness ==
    /\ hist.active /\ metric \in Metrics /\ hist.errSeen
    /\ hist.lastAnswer = "error" /\ polls = 2 /\ hist.invFetch = 1
    /\ pc = "done" /\ result.status = "err"

\* C9: an orchestrator call that has ended has returned a result or an error.
C9_ResultOrError ==
    metric \in Metrics /\ pc = "done" => result.status \in {"ok", "err"}

\* how often the value v stands in the series
Occurrences(series, v) ==
    Cardinality({p \in (1..Len(series)) \X (1..MaxPoints + 1) :
                    p[2] <= Len(series[p[1]]) /\ series[p[1]][p[2]] = v})

\* the total of all values of all series, value by value
RECURSIVE TotalOver(_, _)
TotalOver(series, values) ==
    IF values = {} THEN 0
    ELSE LET v == CHOOSE x \in values : TRUE
         IN  v * Occurrences(series, v) + TotalOver(series, values \ {v})

\* C14: the denominator a fetch resolves is the total of all values of all
\* series; it is 0 for no series and for series without points, and a total
\* of 0 ends the call with NoInvocations, any other total with no error.
C14_SumOfSeries ==
    hist.active /\ hist.resolved = "fetch" =>
        /\ invSum = TotalOver(fetched, MetricValues)
        /\ (\A i \in 1..Len(fetched) : fetched[i] = <<>>) => invSum = 0
        /\ IF TotalOver(fetched, MetricValues) = 0
           THEN pc = "done" /\ result = Err("NoInvocations")
           ELSE pc = "numerator" /\ result.status # "err"

\* two series with values have been summed, the second one counting
C14_Witness ==
    /\ hist.active /\ hist.resolved = "fetch"
    /\ Len(fetched) = 2 /\ Len(fetched[1]) = 2 /\ Len(fetched[2]) = 2
    /\ fetched[2][2] > 0 /\ invSum > fetched[1][1] + fetched[1][2]

\* the value strings of the model that are numbers, and their values
Numerals == {<<"0">>, <<"2">>, <<"3">>}
NumeralValue(str) == CASE str = <<"0">> -> 0 [] str = <<"2">> -> 2 [] str = <<"3">> -> 3

\* a row of the backend gives field f / the value it gives
Gives(row, f) == \E j \in 1..Len(row) : row[j].Field = f
Given(row, f) == row[CHOOSE j \in 1..Len(row) : row[j].Field = f].Value

\* the rows of the backend that give a number in field f, and the k-th of them
NumberRows(rows, f) ==
    {i \in 1..Len(rows) : Gives(rows[i], f) /\ Given(rows[i], f) \in Numerals}
NthOf(idx, k) == CHOOSE i \in idx : Cardinality({j \in idx : j <= i}) = k

\* a Complete answer has been worked on by orchestrator m
Worked(m) == metric = m /\ pc = "done" /\ hist.lastAnswer = "Complete"

\* C15: GetErrorTypes returns one entry per row that gives a number as
\* error_count, in row order, with the row's category or "UnknownError" for a
\* blank or missing one; other rows are skipped and the call does not fail.
C15_ErrorTypes ==
    Worked("ErrorTypes") =>
        LET kept == NumberRows(held, "error_count")
        IN  /\ result.status = "ok"
            /\ Len(result.value) = Cardinality(kept)
            /\ \A k \in 1..Cardinality(kept) :
                  LET row == held[NthOf(kept, k)]
                  IN  /\ result.value[k].ErrorCount = NumeralValue(Given(row, "error_count"))
                      /\ result.value[k].ErrorCategory =
                            (IF Gives(row, "error_category") /\ Given(row, "error_category") # <<>>
                             THEN Given(row, "error_category")
                             ELSE <<"UnknownError">>)

\* a row with an unparsable count stood before a row with a blank category
C15_Witness ==
    /\ Worked("ErrorTypes") /\ Len(held) = 2
    /\ Gives(held[1], "error_count") /\ Given(held[1], "error_count") \notin Numerals
    /\ Gives(held[2], "error_category") /\ Given(held[2], "error_category") = <<>>
    /\ Len(result.value) = 1

\* C16: the sample handed to CalcSummaryStats is the values of the rows that
\* give a number, in row order; the result is the statistics of that sample,
\* or the empty-sample error when no row gives a number.
C16_SampleOfRows ==
    \A m \in StatMetrics :
        Worked(m) =>
            LET kept == NumberRows(held, Fields(m, 1)[1])
                expected == [k \in 1..Cardinality(kept) |->
                                NumeralValue(Given(held[NthOf(kept, k)], Fields(m, 1)[1]))]
            IN  /\ hist.handed = expected
                /\ IF Cardinality(kept) = 0
                   THEN result = Err("error calculating summary statistics")
                   ELSE result.status = "ok" /\ result.value = CalcSummaryStats(expected)

\* a value that does not parse stood before one that does
C16_Witness ==
    /\ Worked("MemoryUsage") /\ Len(held) = 2
    /\ Gives(held[1], "memoryUtilizationRatio")
    /\ Given(held[1], "memoryUtilizationRatio") \notin Numerals
    /\ hist.handed = <<2>> /\ result.status = "ok"

\* the value of field f in the first row the backend holds, blank without one
FirstGiven(f) ==
    IF Len(held) > 0 /\ Gives(held[1], f) THEN Given(held[1], f) ELSE <<>>

\* a total read from the first row: 0 when blank
TotalGiven(f) == IF FirstGiven(f) = <<>> THEN 0 ELSE NumeralValue(FirstGiven(f))

\* the actual-duration total is zero or blank
ActualZeroOrBlank ==
    FirstGiven("totalDuration") = <<>> \/
        (FirstGiven("totalDuration") \in Numerals /\ TotalGiven("totalDuration") = 0)

\* the call failed, and not with NoInvocationsError
FailedDistinctly == result.status = "err" /\ result.err # "NoInvocations"

\* (billed total - actual total) / billed total
WasteQuotient ==
    [num |-> TotalGiven("totalBilledDuration") - TotalGiven("totalDuration"),
     den |-> TotalGiven("totalBilledDuration")]

\* C17 as stated: GetWasteRatio fails, with an error other than
\* NoInvocationsError, when the actual-duration total is zero or blank, and
\* otherwise returns (billed - actual) / billed.
C17_AsStated ==
    Worked("WasteRatio") =>
        IF ActualZeroOrBlank THEN FailedDistinctly
        ELSE result.status = "ok" /\ result = Ok(WasteQuotient)

\* C17: GetWasteRatio fails, with an error other than NoInvocationsError, when
\* the actual-duration total is zero or blank and when a non-blank total does
\* not parse; otherwise it returns (billed - actual) / billed as float64
\* division gives it.
C17_WasteRatio ==
    Worked("WasteRatio") =>
        IF \/ ActualZeroOrBlank
           \/ FirstGiven("totalDuration") \notin Numerals
           \/ FirstGiven("totalBilledDuration") \notin Numerals \cup {<<>>}
        THEN FailedDistinctly
        ELSE result = Ok(WasteQuotient)

\* the backend gave an actual total of 0 next to a billed total of 2
C17_Witness ==
    /\ Worked("WasteRatio") /\ invSum # 0
    /\ FirstGiven("totalDuration") = <<"0">>
    /\ FirstGiven("totalBilledDuration") = <<"2">>
    /\ result = Err("total duration is zero, cannot calculate waste ratio")

\* C18: a waste ratio returned without error lies between 0.0 and 1.0.
C18_RatioInRange ==
    Worked("WasteRatio") /\ result.status = "ok" =>
        /\ result.value.den > 0
        /\ 0 <= result.value.num
        /\ result.value.num <= result.value.den

\* C19: a throttle rate returned without error is the Throttles sum over the
\* invocation-count denominator and lies between 0 and 1.
C19_ThrottleRate ==
    metric = "ThrottleRate" /\ pc = "done" /\ result.status = "ok" =>
        /\ result.value.den = invSum
        /\ result.value.num \in {SumMetricValues(series) : series \in MetricResults}
        /\ result.value.den > 0
        /\ 0 <= result.value.num
        /\ result.value.num <= result.value.den

\* C20: with an aggregate row present GetColdStartRate returns rate 0 when
\* totalInvocations or coldStartLines is blank; with both non-blank it returns
\* cold / total when both parse and total is not zero, and an error otherwise.
C20_ColdStartRate ==
    Worked("ColdStartRate") /\ Len(held) > 0 =>
        LET total == FirstGiven("totalInvocations")
            cold == FirstGiven("coldStartLines")
        IN  IF total = <<>> \/ cold = <<>>
            THEN result = Ok([num |-> 0, den |-> 1])
            ELSE IF total \in Numerals /\ cold \in Numerals /\ NumeralValue(total) # 0
            THEN result = Ok([num |-> NumeralValue(cold), den |-> NumeralValue(total)])
            ELSE result.status = "err"

\* the row gave a blank total next to a cold-start count that does not parse
C20_Witness ==
    /\ Worked("ColdStartRate") /\ Len(held) > 0 /\ invSum # 0
    /\ FirstGiven("totalInvocations") = <<>>
    /\ FirstGiven("coldStartLines") = <<"x">>
    /\ result = Ok([num |-> 0, den |-> 1])

\* the count field of the one-row summary held for query ph of GetTimeoutRate,
\* blank without a row or without the field
CountGiven(ph) ==
    LET f == IF ph = 1 THEN "invocationsCount" ELSE "timeoutCount"
        rows == held[ph]
    IN  IF Len(rows) > 0 /\ Gives(rows[1], f) THEN Given(rows[1], f) ELSE <<>>

\* that field is given and is not an integer
CountBad(ph) == CountGiven(ph) # <<>> /\ CountGiven(ph) \notin Numerals

\* C21: in GetTimeoutRate a non-blank invocationsCount or timeoutCount that is
\* not an integer fails the call with a parse error and no result; after a bad
\* invocationsCount the second query is never submitted.
C21_ParseFails ==
    metric = "TimeoutRate" =>
        /\ hist.completes >= 1 /\ CountBad(1) =>
              /\ pc = "done" /\ result = Err("parse invocationsCount from logs")
              /\ hist.submits = 1 /\ hist.completes = 1
        /\ hist.completes = 2 /\ CountBad(2) =>
              /\ pc = "done" /\ result = Err("parse timeoutCount from logs")

\* the first query answered with a count that is not an integer
C21_Witness ==
    /\ metric = "TimeoutRate" /\ invSum # 0 /\ CountGiven(1) = <<"x">>
    /\ hist.completes = 1 /\ hist.submits = 1
    /\ pc = "done" /\ result = Err("parse invocationsCount from logs")

\* C30: a result GetTimeoutRate returns without error is not a quotient with
\* divisor 0, also when invocationsCount is 0, blank or missing.
C30_NoDivisionByZero ==
    metric = "TimeoutRate" /\ pc = "done" /\ invSum # 0 /\ result.status = "ok" =>
        result.value.den # 0

\* characters of the model's qualifiers that the regular expression at the
\* substitution site, /\[%s\]/, gives a meaning
ReservedChars == {"$", "|"}

\* C22: the text at the substitution site of a submitted query is the
\* qualifier with every '$' written '\$', and no reserved character of the
\* qualifier stands in it without a backslash before it.
C22_Escaped ==
    hist.active /\ metric \in Metrics \ MetricOnly /\ hist.submits >= 1 =>
        LET site == hist.queryString.site
        IN  /\ Len(SelectSeq(site, LAMBDA c : c # "\\")) = Len(query.Qualifier)
            /\ SelectSeq(site, LAMBDA c : c # "\\") = query.Qualifier
            /\ \A i \in 1..Len(site) :
                  site[i] \in ReservedChars => i > 1 /\ site[i - 1] = "\\"

\* goroutine t is inside the map of the cache
InMap(t) == threads[t].pc = "map"

\* C23: concurrent Set, Get and Has calls take effect atomically: a writer is
\* never inside the map together with another goroutine, a Get(k) that has
\* returned gave (0, false) or a value passed to a Set(k, _) already started,
\* and once all calls have returned the value stored for k is that of a Set(k, _).
C23_Atomic ==
    /\ \A t, u \in Goroutines :
          InMap(t) /\ threads[t].op = "Set" /\ u # t => ~InMap(u)
    /\ \A t \in Goroutines :
          threads[t].pc = "idle" /\ threads[t].op = "Get" =>
              \/ threads[t].count = 0 /\ ~threads[t].found
              \/ threads[t].found /\ <<threads[t].key, threads[t].count>> \in sets
    /\ (\A t \in Goroutines : threads[t].pc = "idle") =>
          \A k \in LockKeys :
              Has(store, k) => <<k, Get(store, k).count>> \in sets

\* C24: a Set takes effect only for a key that is not in the cache yet, so
\* each key is written at most once.
C24_WriteOnce ==
    [][\A t \in Goroutines : SetReturn(t) => ~CacheHit(store, threads[t].query)]_vars

\* the goroutines that hold the lock
Holders == mu.readers \cup (IF mu.writer = 0 THEN {} ELSE {mu.writer})

\* the positions inside Has, Get and Set at which the lock is held
MapPositions == {"hasMap", "getMap", "setMap"}

\* C27: a call that waits for a backend or sleeps holds no lock, a call that
\* waits for the lock waits only for calls that are inside Has, Get or Set, and
\* some call can always take a step.
C27_NoLockAcrossBackend ==
    /\ \A t \in Goroutines :
          threads[t].pc \in NetworkWaits \cup {"idle"} => t \notin Holders
    /\ \A h \in Holders : threads[h].pc \in MapPositions
    /\ \A t \in Goroutines :
          \/ At(t, "idle")
          \/ threads[t].pc \in NetworkWaits \cup MapPositions
          \/ threads[t].pc \in {"has", "get"} /\ (CanRLock(mu) \/ At(mu.writer, "setMap"))
          \/ At(t, "set") /\ (CanLock(mu) \/ \E h \in Holders : threads[h].pc \in MapPositions)

\* one call writes the cache while another waits for a status poll
C27_Witness ==
    \E t, u \in Goroutines :
        /\ At(t, "poll") /\ At(u, "setMap") /\ mu.writer = u
        /\ t \notin Holders

\* the running call has issued a request after its denominator step
NumeratorRequested == hist.active /\ metric \in Metrics /\ hist.reqs > hist.invFetch

C26_PositiveCounts == \A k \in DOMAIN store : store[k] > 0

\* C28: a call takes its denominator from the cache only if a call for the
\* same function name, qualifier, start and end wrote it.
C28_NoSharedEntry ==
    hist.active /\ hist.resolved = "cache" => hist.wasWritten

\* the Invocations fetch of the running call has failed
InvocationsFetchFailed == hist.active /\ hist.invFetch = 1 /\ hist.resolved = "no"

\* C29: a call whose Invocations fetch fails returns an error and leaves the
\* cache as it was at the start of the call, without the key; a call that
\* finds its key missing fetches Invocations.
C29_FailedFetch ==
    /\ [](InvocationsFetchFailed =>
            /\ pc = "done" /\ result = Err("fetch invocations metric")
            /\ store = hist.storeAtCall
            /\ ~CacheHit(store, query))
    /\ [][pc = "resolve" /\ pc' # "resolve" /\ ~CacheHit(store, query) =>
            hist'.invFetch = hist.invFetch + 1]_vars

\* the fetch failed in a call made on a cache that holds another key
C29_Witness ==
    /\ InvocationsFetchFailed /\ pc = "done"
    /\ store # NewCache /\ store = hist.storeAtCall

====
